---- MODULE Spec2Model ----
(***************************************************************************)
(* Model of the Kenz Tasks waitlist signup endpoint (api/waitlist.php):    *)
(* PHP worker processes handle HTTP requests against one CSV ledger file.  *)
(* Strings are sequences of one-character strings, the ledger file is the  *)
(* sequence of its physical lines, and every call of the script that       *)
(* touches the file system is one atomic step of the worker.               *)
(***************************************************************************)
EXTENDS Integers, Sequences, FiniteSets, TLC

\* ------------------------------------------------------------------ bounds
NumProcs == 2
MaxRequests == 2
MaxClock == 1
MaxFaults == 1

Procs == 1..NumProcs

\* ------------------------------------------------------- program constants
\* $maxFileSize = 10 * 1024 * 1024
maxFileSize == 10 * 1024 * 1024

\* ------------------------------------------------------------- characters
\* the value of a string that is not set (null / missing key)
Absent == <<"<absent>">>

LowerCase ==
    {"a","b","c","d","e","f","g","h","i","j","k","l","m",
     "n","o","p","q","r","s","t","u","v","w","x","y","z"}

UpperCase ==
    {"A","B","C","D","E","F","G","H","I","J","K","L","M",
     "N","O","P","Q","R","S","T","U","V","W","X","Y","Z"}

Digits == {"0","1","2","3","4","5","6","7","8","9"}

Alnum == LowerCase \cup UpperCase \cup Digits

\* characters trim() strips from both ends
Whitespace == {" ", "\t", "\n", "\r"}

\* the characters FILTER_SANITIZE_EMAIL keeps besides letters and digits
\* (the backquote, which it also keeps, is not in the model's alphabet)
EmailSpecials ==
    {"!","#","$","%","&","'","*","+","-","=","?","^","_","{","|","}","~","@",".","[","]"}

\* characters of an unquoted local-part atom in FILTER_VALIDATE_EMAIL
AtomChars ==
    Alnum \cup {"!","#","$","%","&","'","*","+","-","/","=","?","^","_","{","|","}","~"}

\* ------------------------------------------------------- string functions
RECURSIVE LTrim(_)
LTrim(s) ==
    IF s # <<>> /\ Head(s) \in Whitespace THEN LTrim(Tail(s)) ELSE s

RECURSIVE RTrim(_)
RTrim(s) ==
    IF s # <<>> /\ s[Len(s)] \in Whitespace
    THEN RTrim(SubSeq(s, 1, Len(s) - 1))
    ELSE s

\* trim($s)
Trim(s) == RTrim(LTrim(s))

IsSanitizedChar(c) == c \in Alnum \cup EmailSpecials

\* filter_var($s, FILTER_SANITIZE_EMAIL): drops every other character
SanitizeEmail(s) == SelectSeq(s, IsSanitizedChar)

\* explode($ch, $s)
RECURSIVE Explode(_, _)
Explode(ch, s) ==
    IF \E i \in 1..Len(s) : s[i] = ch
    THEN LET i == CHOOSE k \in 1..Len(s) :
                      s[k] = ch /\ \A j \in 1..(k - 1) : s[j] # ch
         IN  <<SubSeq(s, 1, i - 1)>> \o Explode(ch, SubSeq(s, i + 1, Len(s)))
    ELSE <<s>>

IsAtom(a) == a # <<>> /\ \A i \in 1..Len(a) : a[i] \in AtomChars

\* [a-z0-9]+(-+[a-z0-9]+)* , at most 63 characters
IsLabel(l) ==
    /\ l # <<>>
    /\ Len(l) <= 63
    /\ \A i \in 1..Len(l) : l[i] \in Alnum \cup {"-"}
    /\ l[1] # "-"
    /\ l[Len(l)] # "-"

IsTld(l) == IsLabel(l) /\ l[1] \in LowerCase \cup UpperCase

\* a format check that takes every text that is not empty
ValidateEmail_NonEmpty(s) == s # <<>>

\* filter_var($s, FILTER_VALIDATE_EMAIL) for the dot-atom "@" host-name form
ValidateEmail(s) ==
    LET parts == Explode("@", s)
    IN  /\ Len(parts) = 2
        /\ Len(s) <= 254
        /\ Len(parts[1]) <= 64
        /\ LET atoms  == Explode(".", parts[1])
               labels == Explode(".", parts[2])
           IN  /\ \A i \in 1..Len(atoms) : IsAtom(atoms[i])
               /\ Len(labels) >= 2
               /\ \A i \in 1..(Len(labels) - 1) : IsLabel(labels[i])
               /\ IsTld(labels[Len(labels)])

\* ----------------------------------------------------------- CSV encoding
Quote == "\""

CsvTrigger == {",", Quote, "\n", "\r", "\t", " "}

NeedsEnclosure(f) == \E i \in 1..Len(f) : f[i] \in CsvTrigger

RECURSIVE DoubleQuotes(_)
DoubleQuotes(f) ==
    IF f = <<>> THEN <<>>
    ELSE (IF Head(f) = Quote THEN <<Quote, Quote>> ELSE <<Head(f)>>)
         \o DoubleQuotes(Tail(f))

CsvField(f) ==
    IF NeedsEnclosure(f) THEN <<Quote>> \o DoubleQuotes(f) \o <<Quote>> ELSE f

RECURSIVE CsvJoin(_)
CsvJoin(fields) ==
    IF Len(fields) = 1 THEN CsvField(fields[1])
    ELSE CsvField(Head(fields)) \o <<",">> \o CsvJoin(Tail(fields))

\* the bytes fputcsv($file, $fields) writes: the encoded record and "\n"
FputCsvBytes(fields) == CsvJoin(fields) \o <<"\n">>

\* the physical lines (without their "\n") of bytes that end in "\n"
PhysicalLines(bytes) ==
    LET pieces == Explode("\n", bytes)
    IN  SubSeq(pieces, 1, Len(pieces) - 1)

\* the rest of an enclosed field from position i on, up to the closing quote,
\* then whatever follows the closing quote up to the next delimiter
RECURSIVE EnclosedRest(_, _)
EnclosedRest(s, i) ==
    IF i > Len(s) THEN <<>>
    ELSE IF s[i] # Quote THEN <<s[i]>> \o EnclosedRest(s, i + 1)
    ELSE IF i < Len(s) /\ s[i + 1] = Quote
         THEN <<Quote>> \o EnclosedRest(s, i + 2)
    ELSE Explode(",", SubSeq(s, i + 1, Len(s)))[1]

\* str_getcsv($line)[0]; Absent when the cell is null (an empty line)
FirstCell(line) ==
    IF line = <<>> THEN Absent
    ELSE IF line[1] = Quote THEN EnclosedRest(line, 2)
    ELSE Explode(",", line)[1]

\* ------------------------------------------------------------- addresses
DigitSeq == <<"0","1","2","3","4","5","6","7","8","9">>

DigitVal(c) == (CHOOSE i \in 1..10 : DigitSeq[i] = c) - 1

RECURSIVE DecVal(_)
DecVal(s) ==
    IF s = <<>> THEN 0 ELSE 10 * DecVal(SubSeq(s, 1, Len(s) - 1)) + DigitVal(s[Len(s)])

IsOctet(s) ==
    /\ s # <<>>
    /\ Len(s) <= 3
    /\ \A i \in 1..Len(s) : s[i] \in Digits
    /\ (Len(s) > 1 => s[1] # "0")
    /\ DecVal(s) <= 255

\* filter_var($s, FILTER_VALIDATE_IP) for dotted-quad addresses
ValidateIp(s) ==
    LET parts == Explode(".", s)
    IN  Len(parts) = 4 /\ \A i \in 1..4 : IsOctet(parts[i])

\* $a ?? $b
Coalesce(a, b) == IF a # Absent THEN a ELSE b

\* $ipAddress of lines 83-87
ClientAddress(headers) ==
    LET raw   == Coalesce(headers.xff, Coalesce(headers.remote, <<>>))
        first == Explode(",", raw)[1]
    IN  IF ValidateIp(Trim(first)) THEN Trim(first)
        ELSE <<"u","n","k","n","o","w","n">>

\* the string kept whole
SubStr_Whole(s, n) == s

\* substr($s, 0, $n)
SubStr(s, n) == SubSeq(s, 1, IF Len(s) < n THEN Len(s) ELSE n)

\* date('Y-m-d H:i:s') when the clock reads t seconds past the epoch chosen
\* for the model
FormatDate(t) ==
    <<"2","0","2","4","-","0","1","-","1","5"," ","1","0",":","3","0",":",
      DigitSeq[((t \div 10) % 10) + 1], DigitSeq[(t % 10) + 1]>>

HeaderRow ==
    << <<"e","m","a","i","l">>,
       <<"t","i","m","e","s","t","a","m","p">>,
       <<"s","o","u","r","c","e">>,
       <<"i","p","_","a","d","d","r","e","s","s">>,
       <<"u","s","e","r","_","a","g","e","n","t">> >>

DefaultSource == <<"l","a","n","d","i","n","g","_","p","a","g","e">>

\* ------------------------------------------------------------------ state
VARIABLES
    dirExists,   \* is_dir('../data')
    csvFile,     \* '../data/waitlist.csv'
    now,         \* the server clock
    pc,          \* where each worker is in the script
    req,         \* the request each worker handles
    email,       \* $email
    statCache,   \* the worker's cached stat of $csvFile (its size), or NoStat
    csvRow,      \* $csvRow
    resp,        \* the response sent
    parsed,      \* php://input has been read and decoded
    touched,     \* the worker has made a file-system call
    pre,         \* the ledger as it was when the request arrived
    answered,    \* emails a success response has been sent for
    nreq,        \* requests received so far
    nfaults      \* storage faults injected so far

\* the signup form of the landing page (class WaitlistManager) in one browser
VARIABLES
    isSubmitting,    \* this.isSubmitting
    submitBtn,       \* #waitlist-submit: disabled, aria-busy
    emailInput,      \* #waitlist-email: value, disabled
    emailError,      \* #email-error: textContent, class 'show'
    successMessage,  \* #success-message: textContent, class 'show'
    globalError,     \* #global-error-message: textContent, class 'show'
    liveRegion,      \* #waitlist-live-region: textContent
    localStorage,    \* waitlist_emails and waitlist_data
    inflight,        \* the handleSubmit calls waiting for fetch or for the timer
    hideTimers,      \* pending auto-hide timers of the two message regions
    tracked,         \* the events passed to trackEvent
    nsent,           \* fetch requests sent so far
    last,            \* the handler that ran last, and the state it started from
    tabs             \* the demo simulations of the tabs that share localStorage

wvars == <<isSubmitting, submitBtn, emailInput, emailError, successMessage,
           globalError, liveRegion, localStorage, inflight, hideTimers,
           tracked, nsent, last, tabs>>

svars == <<dirExists, csvFile, now, pc, req, email, statCache, csvRow, resp,
           parsed, touched, pre, answered, nreq, nfaults>>

vars == <<svars, wvars>>

NoStat == -1
NoResp == [status |-> 0, body |-> "none"]

\* size in bytes of the file: every physical line ends in "\n"
RECURSIVE LineBytes(_)
LineBytes(lines) ==
    IF lines = <<>> THEN 0 ELSE Len(Head(lines)) + 1 + LineBytes(Tail(lines))

FileSize(f) == f.oldBytes + LineBytes(f.lines)

\* ----------------------------------------------------------------- inputs
A_B_C == <<"a","@","b",".","c">>

RawEmails ==
    { A_B_C,
      <<"A","@","b",".","c"," ">>,
      <<"b","@","b",".","c">>,
      <<"a"," ","(","@","b",".","c">>,
      <<>>,
      <<"a","@","b">>,
      <<"e","m","a","i","l">> }

Sources ==
    { Absent,
      <<"q">>,
      <<"x","\n","y">> }

UserAgents == { <<"M","o","z"," ","5">> }

Remote4 == <<"1","0",".","0",".","0",".","7">>

Headers == [ua : UserAgents, xff : {Absent}, remote : {Remote4}]

\* the timestamp the form puts in its request: new Date().toISOString()
ClientTime ==
    <<"2","0","2","4","-","0","1","-","1","5","T","0","9",":","0","0",":",
      "0","0",".","0","0","0","Z">>

NoBody == [kind |-> "none", email |-> Absent, source |-> Absent,
           timestamp |-> Absent]

Bodies ==
    {NoBody} \cup [kind : {"object"}, email : RawEmails \cup {Absent},
                   source : Sources, timestamp : {Absent}]

Methods == {"POST", "GET", "OPTIONS"}

\* the requests of the sequential runs: every body as a POST, and the other
\* methods without a body and with a well-formed signup
SeqRequests ==
    [method : {"POST"}, body : Bodies, headers : Headers]
    \cup [method : Methods \ {"POST"},
          body : {NoBody, [kind |-> "object", email |-> A_B_C, source |-> Absent,
                           timestamp |-> Absent]},
          headers : Headers]

\* the requests of the concurrent runs: signups of two addresses
ConcRequests ==
    [method : {"POST"},
     body : [kind : {"object"},
             email : {A_B_C, <<"b","@","b",".","c">>},
             source : {Absent},
             timestamp : {Absent}],
     headers : Headers]

\* the requests of the runs with storage faults: well-formed signups
FaultRequests ==
    [method : {"POST"},
     body : [kind : {"object"},
             email : {A_B_C, <<"b","@","b",".","c">>},
             source : {Absent},
             timestamp : {Absent}],
     headers : Headers]

\* lines and bytes of a ledger written before the run; its rows are the
\* header and signups of addresses other than the ones submitted in the run
OldLines == 4

OldFiles ==
    { [exists |-> TRUE, oldLines |-> OldLines, oldBytes |-> b, lines |-> <<>>] :
        b \in {maxFileSize - 1, maxFileSize, maxFileSize + 1} }

NoFile == [exists |-> FALSE, oldLines |-> 0, oldBytes |-> 0, lines |-> <<>>]
EmptyFile == [exists |-> TRUE, oldLines |-> 0, oldBytes |-> 0, lines |-> <<>>]

NoReq == [method |-> "POST", body |-> NoBody,
          headers |-> [ua |-> Absent, xff |-> Absent, remote |-> Remote4]]

\* ------------------------------------------------ the form when it is built
\* a text shown to the user, with the number it mentions (-1: none)
Text(s) == [text |-> s, n |-> -1]
NoText == Text("")

\* a message element that has not been shown
Hidden == [text |-> NoText, show |-> FALSE]

\* localStorage.getItem('waitlist_emails') || '[]' and
\* localStorage.getItem('waitlist_data') || '{}'
EmptyStorage == [waitlist_emails |-> <<>>, waitlist_data |-> {}]

NoCall == [email |-> Absent, stage |-> "none", reached |-> FALSE,
           answer |-> NoResp, body |-> NoBody]

NoResult == [success |-> FALSE, message |-> NoText, alreadyExists |-> FALSE,
             waitlistPosition |-> -1, timestamp |-> Absent, demoMode |-> FALSE,
             origin |-> "none"]

\* what the properties read of the state a handler started from
Snapshot ==
    [isSubmitting |-> isSubmitting, localStorage |-> localStorage,
     value |-> emailInput.value, successMessage |-> successMessage,
     globalError |-> globalError, nsent |-> nsent, inflight |-> Len(inflight)]

\* the handler that ran last, how it ended, the call and result it ended with
Step(handler, outcome, call, result) ==
    [handler |-> handler, outcome |-> outcome, call |-> call,
     result |-> result, pre |-> Snapshot]

\* tabs of the page that are open on the same origin
NumTabs == 2

Tabs == 1..NumTabs

\* a tab whose form has nothing pending
IdleTab == [stage |-> "idle", email |-> Absent, existingEmails |-> <<>>,
            waitlistData |-> {}, result |-> NoResult, resolved |-> {},
            wrote |-> FALSE]

\* new WaitlistManager(), with the localStorage left by earlier visits and
\* the value the document has in #email
ConstructedWith(store, value) ==
    /\ tabs = [t \in Tabs |-> IdleTab]
    /\ isSubmitting = FALSE
    /\ submitBtn = [disabled |-> FALSE, ariaBusy |-> FALSE]
    /\ emailInput = [value |-> value, disabled |-> FALSE]
    /\ emailError = Hidden
    /\ successMessage = Hidden
    /\ globalError = Hidden
    /\ liveRegion = NoText
    /\ localStorage = store
    /\ inflight = <<>>
    /\ hideTimers = [success |-> 0, error |-> 0]
    /\ tracked = <<>>
    /\ nsent = 0
    /\ last = [handler |-> "none", outcome |-> "none", call |-> NoCall,
               result |-> NoResult,
               pre |-> [isSubmitting |-> FALSE, localStorage |-> store,
                        value |-> value, successMessage |-> Hidden,
                        globalError |-> Hidden, nsent |-> 0, inflight |-> 0]]

\* the page as it is served: the field is empty
Constructed(store) == ConstructedWith(store, <<>>)

\* the service before its first request
ServerInit ==
    /\ \/ dirExists = FALSE /\ csvFile = NoFile
       \/ dirExists = TRUE /\ csvFile \in {NoFile, EmptyFile} \cup OldFiles
    /\ now = 0
    /\ pc = [p \in Procs |-> "idle"]
    /\ req = [p \in Procs |-> NoReq]
    /\ email = [p \in Procs |-> Absent]
    /\ statCache = [p \in Procs |-> NoStat]
    /\ csvRow = [p \in Procs |-> <<>>]
    /\ resp = [p \in Procs |-> NoResp]
    /\ parsed = [p \in Procs |-> FALSE]
    /\ touched = [p \in Procs |-> FALSE]
    /\ pre = [p \in Procs |->
                [dir |-> dirExists, file |-> csvFile, answered |-> {}, nfaults |-> 0]]
    /\ answered = {}
    /\ nreq = 0
    /\ nfaults = 0

Init == ServerInit /\ Constructed(EmptyStorage)

\* ---------------------------------------------------------------- responses
Json(status, success, message) ==
    [status |-> status, body |-> "json", success |-> success, message |-> message,
     alreadyExists |-> FALSE, waitlistPosition |-> -1, timestamp |-> Absent]

MethodNotAllowed == Json(405, FALSE, "Method not allowed")
EmailRequired == Json(400, FALSE, "Email is required")
InvalidFormat == Json(400, FALSE, "Invalid email format")
Unavailable == Json(500, FALSE, "Service temporarily unavailable")
GenericFailure == Json(500, FALSE, "Something went wrong. Please try again later.")
AlreadyOnList ==
    [Json(200, TRUE, "You're already on the waitlist!") EXCEPT !.alreadyExists = TRUE]
Welcome(position, ts) ==
    [Json(200, TRUE, "Welcome to the waitlist!")
        EXCEPT !.waitlistPosition = position, !.timestamp = ts]
\* the preflight answer: status 200 and no body
Preflight == [status |-> 200, body |-> "empty"]
\* an Error that catch (Exception $e) does not catch ends the script
FatalError == [status |-> 500, body |-> "fatal"]

\* ------------------------------------------------------------------ steps
Goto(p, label) == pc' = [pc EXCEPT ![p] = label]

\* echo json_encode(...); exit()
Send(p, r) ==
    /\ resp' = [resp EXCEPT ![p] = r]
    /\ pc' = [pc EXCEPT ![p] = "done"]
    /\ answered' = IF r.body = "json" /\ r.success
                   THEN answered \cup {email[p]} ELSE answered

\* fputcsv on a handle opened in mode 'a': one write at the end of the file
AppendCsv(f, fields) ==
    [f EXCEPT !.lines = @ \o PhysicalLines(FputCsvBytes(fields))]

\* a request arrives at a fresh worker: one that has not run yet or, where
\* workers are taken to follow one another, one that has answered
Receive(p, requests, free) ==
    /\ pc[p] \in free
    /\ nreq < MaxRequests
    /\ \E r \in requests : req' = [req EXCEPT ![p] = r]
    /\ Goto(p, "method")
    /\ email' = [email EXCEPT ![p] = Absent]
    /\ statCache' = [statCache EXCEPT ![p] = NoStat]
    /\ csvRow' = [csvRow EXCEPT ![p] = <<>>]
    /\ resp' = [resp EXCEPT ![p] = NoResp]
    /\ parsed' = [parsed EXCEPT ![p] = FALSE]
    /\ touched' = [touched EXCEPT ![p] = FALSE]
    /\ pre' = [pre EXCEPT ![p] =
                 [dir |-> dirExists, file |-> csvFile, answered |-> answered,
                  nfaults |-> nfaults]]
    /\ nreq' = nreq + 1
    /\ UNCHANGED <<dirExists, csvFile, now, answered, nfaults>>
    /\ UNCHANGED wvars

\* the method check with only GET rejected
CheckMethod_OnlyGetRejected(p) ==
    /\ pc[p] = "method"
    /\ IF req[p].method = "GET" THEN Send(p, MethodNotAllowed)
       ELSE Goto(p, "parse") /\ UNCHANGED <<resp, answered>>
    /\ UNCHANGED <<dirExists, csvFile, now, req, email, statCache, csvRow,
                   parsed, touched, pre, nreq, nfaults>>
    /\ UNCHANGED wvars

\* lines 13-24
CheckMethod(p) ==
    /\ pc[p] = "method"
    /\ IF req[p].method = "OPTIONS" THEN Send(p, Preflight)
       ELSE IF req[p].method # "POST" THEN Send(p, MethodNotAllowed)
       ELSE Goto(p, "parse") /\ UNCHANGED <<resp, answered>>
    /\ UNCHANGED <<dirExists, csvFile, now, req, email, statCache, csvRow,
                   parsed, touched, pre, nreq, nfaults>>
    /\ UNCHANGED wvars

\* !$input || !isset($input['email'])
EmailMissing(body) ==
    \/ body.kind = "none"
    \/ body.email = Absent

\* the format check without its exit(): the script goes on after the 400
ParseInput_NoExit(p) ==
    /\ pc[p] = "parse"
    /\ parsed' = [parsed EXCEPT ![p] = TRUE]
    /\ IF EmailMissing(req[p].body)
       THEN Send(p, EmailRequired) /\ UNCHANGED email
       ELSE /\ email' = [email EXCEPT ![p] = SanitizeEmail(Trim(req[p].body.email))]
            /\ Goto(p, "mkdir")
            /\ UNCHANGED <<resp, answered>>
    /\ UNCHANGED <<dirExists, csvFile, now, req, statCache, csvRow,
                   touched, pre, nreq, nfaults>>
    /\ UNCHANGED wvars

\* lines 26-43
ParseInput(p) ==
    /\ pc[p] = "parse"
    /\ parsed' = [parsed EXCEPT ![p] = TRUE]
    /\ IF EmailMissing(req[p].body)
       THEN Send(p, EmailRequired) /\ UNCHANGED email
       ELSE LET e == SanitizeEmail(Trim(req[p].body.email))
            IN  /\ email' = [email EXCEPT ![p] = e]
                /\ IF ~ValidateEmail(e)
                   THEN /\ resp' = [resp EXCEPT ![p] = InvalidFormat]
                        /\ Goto(p, "done")
                        /\ UNCHANGED answered
                   ELSE Goto(p, "mkdir") /\ UNCHANGED <<resp, answered>>
    /\ UNCHANGED <<dirExists, csvFile, now, req, statCache, csvRow,
                   touched, pre, nreq, nfaults>>
    /\ UNCHANGED wvars

\* lines 50-54
EnsureDir(p) ==
    /\ pc[p] = "mkdir"
    /\ touched' = [touched EXCEPT ![p] = TRUE]
    /\ dirExists' = TRUE
    /\ Goto(p, "exists")
    /\ UNCHANGED <<csvFile, now, req, email, statCache, csvRow, resp,
                   parsed, pre, answered, nreq, nfaults>>
    /\ UNCHANGED wvars

\* line 57: file_exists($csvFile); the stat of an existing file is cached
FileExists(p) ==
    /\ pc[p] = "exists"
    /\ IF csvFile.exists
       THEN /\ statCache' = [statCache EXCEPT ![p] = FileSize(csvFile)]
            /\ Goto(p, "load")
       ELSE /\ Goto(p, "open")
            /\ UNCHANGED statCache
    /\ UNCHANGED <<dirExists, csvFile, now, req, email, csvRow, resp,
                   parsed, touched, pre, answered, nreq, nfaults>>
    /\ UNCHANGED wvars

\* the comparison made on the raw line instead of the first cell
EmailFound_WholeLine(lines, e) ==
    \E i \in 1..Len(lines) : lines[i] = e

\* foreach ($existingEmails as $row): isset($row[0]) && $row[0] === $email
EmailFound(lines, e) ==
    \E i \in 1..Len(lines) : FirstCell(lines[i]) = e

\* the limit taken ten times too large
OverLimit_TenTimes(size) == size > 10 * maxFileSize

\* filesize($csvFile) > $maxFileSize
OverLimit(size) == size > maxFileSize

\* the size check made before the duplicate check
LoadAndCheck_SizeFirst(p) ==
    /\ pc[p] = "load"
    /\ IF OverLimit(statCache[p])
       THEN Send(p, Unavailable)
       ELSE IF EmailFound(csvFile.lines, email[p])
       THEN Send(p, AlreadyOnList)
       ELSE Goto(p, "open") /\ UNCHANGED <<resp, answered>>
    /\ UNCHANGED <<dirExists, csvFile, now, req, email, statCache, csvRow,
                   parsed, touched, pre, nreq, nfaults>>
    /\ UNCHANGED wvars

\* lines 58-76: file($csvFile) and the duplicate check, then the size check,
\* where filesize() answers from the stat cached at line 57
LoadAndCheck(p) ==
    /\ pc[p] = "load"
    /\ IF EmailFound(csvFile.lines, email[p])
       THEN Send(p, AlreadyOnList)
       ELSE IF OverLimit(statCache[p])
       THEN Send(p, Unavailable)
       ELSE Goto(p, "open") /\ UNCHANGED <<resp, answered>>
    /\ UNCHANGED <<dirExists, csvFile, now, req, email, statCache, csvRow,
                   parsed, touched, pre, nreq, nfaults>>
    /\ UNCHANGED wvars

\* the row with the timestamp of the payload when it has one
MakeRow_ClientTimestamp(e, t, body, headers) ==
    << e,
       IF body.timestamp # Absent THEN body.timestamp ELSE FormatDate(t),
       IF body.source # Absent THEN body.source ELSE DefaultSource,
       ClientAddress(headers),
       SubStr(Coalesce(headers.ua, <<>>), 200) >>

\* lines 79-96
MakeRow(e, t, body, headers) ==
    << e,
       FormatDate(t),
       IF body.source # Absent THEN body.source ELSE DefaultSource,
       ClientAddress(headers),
       SubStr(Coalesce(headers.ua, <<>>), 200) >>

\* the file opened in mode 'w': created or truncated
OpenAppend_Truncate(f) ==
    [exists |-> TRUE, oldLines |-> 0, oldBytes |-> 0, lines |-> <<>>]

\* fopen($csvFile, 'a'): creates the file when it is missing, keeps its content
OpenAppend(f) == [f EXCEPT !.exists = TRUE]

\* lines 79-102: the row is prepared and the file opened; fopen fails when
\* the directory is missing
OpenFile(p) ==
    /\ pc[p] = "open"
    /\ csvRow' = [csvRow EXCEPT ![p] =
                    MakeRow(email[p], now, req[p].body, req[p].headers)]
    /\ IF dirExists
       THEN /\ csvFile' = OpenAppend(csvFile)
            /\ Goto(p, "header")
            /\ UNCHANGED <<resp, answered>>
       ELSE /\ Send(p, GenericFailure)
            /\ UNCHANGED csvFile
    /\ UNCHANGED <<dirExists, now, req, email, statCache,
                   parsed, touched, pre, nreq, nfaults>>
    /\ UNCHANGED wvars

\* the header row written whatever the size of the file
WriteHeader_Always(p) ==
    /\ pc[p] = "header"
    /\ LET size == IF statCache[p] # NoStat THEN statCache[p] ELSE FileSize(csvFile)
       IN  /\ statCache' = [statCache EXCEPT ![p] = size]
           /\ csvFile' = AppendCsv(csvFile, HeaderRow)
    /\ Goto(p, "write")
    /\ UNCHANGED <<dirExists, now, req, email, csvRow, resp,
                   parsed, touched, pre, answered, nreq, nfaults>>
    /\ UNCHANGED wvars

\* lines 104-107: filesize() answers from the cached stat when there is one
WriteHeader(p) ==
    /\ pc[p] = "header"
    /\ LET size == IF statCache[p] # NoStat THEN statCache[p] ELSE FileSize(csvFile)
       IN  /\ statCache' = [statCache EXCEPT ![p] = size]
           /\ csvFile' = IF size = 0 THEN AppendCsv(csvFile, HeaderRow) ELSE csvFile
    /\ Goto(p, "write")
    /\ UNCHANGED <<dirExists, now, req, email, csvRow, resp,
                   parsed, touched, pre, answered, nreq, nfaults>>
    /\ UNCHANGED wvars

\* lines 109-113
WriteRow(p) ==
    /\ pc[p] = "write"
    /\ csvFile' = AppendCsv(csvFile, csvRow[p])
    /\ Goto(p, "count")
    /\ UNCHANGED <<dirExists, now, req, email, statCache, csvRow, resp,
                   parsed, touched, pre, answered, nreq, nfaults>>
    /\ UNCHANGED wvars

\* count(file($csvFile, FILE_IGNORE_NEW_LINES | FILE_SKIP_EMPTY_LINES))
CountLines(f) ==
    f.oldLines + Cardinality({i \in 1..Len(f.lines) : f.lines[i] # <<>>})

\* max(0, count($lines) - 1)
WaitlistCount(f) == IF CountLines(f) - 1 > 0 THEN CountLines(f) - 1 ELSE 0

\* lines 115-131
CountAndRespond(p) ==
    /\ pc[p] = "count"
    /\ Send(p, Welcome(WaitlistCount(csvFile), csvRow[p][2]))
    /\ UNCHANGED <<dirExists, csvFile, now, req, email, statCache, csvRow,
                   parsed, touched, pre, nreq, nfaults>>
    /\ UNCHANGED wvars

\* the server clock advances
Tick ==
    /\ now < MaxClock
    /\ now' = now + 1
    /\ UNCHANGED <<dirExists, csvFile, pc, req, email, statCache, csvRow, resp,
                   parsed, touched, pre, answered, nreq, nfaults>>
    /\ UNCHANGED wvars

\* ----------------------------------------------------------- specifications
\* Concurrent workers, one request each, within one second of the server
\* clock, no storage faults.  A request's arrival, method check and parsing
\* touch nothing shared, so they commute with the steps of the other workers:
\* the requests are taken to arrive before the first file-system call.
NoneTouched == \A q \in Procs : ~touched[q]

Next ==
    \/ \E p \in Procs :
          Receive(p, ConcRequests, IF NoneTouched THEN {"idle"} ELSE {})
    \/ \E p \in Procs : CheckMethod(p)
    \/ \E p \in Procs : ParseInput(p)
    \/ \E p \in Procs : EnsureDir(p)
    \/ \E p \in Procs : FileExists(p)
    \/ \E p \in Procs : LoadAndCheck(p)
    \/ \E p \in Procs : OpenFile(p)
    \/ \E p \in Procs : WriteHeader(p)
    \/ \E p \in Procs : WriteRow(p)
    \/ \E p \in Procs : CountAndRespond(p)

Spec == Init /\ [][Next]_vars

\* one worker at a time: each request starts after the previous one ended
SeqNext ==
    \/ Receive(1, SeqRequests, {"idle", "done"})
    \/ CheckMethod(1)
    \/ ParseInput(1)
    \/ EnsureDir(1)
    \/ FileExists(1)
    \/ LoadAndCheck(1)
    \/ OpenFile(1)
    \/ WriteHeader(1)
    \/ WriteRow(1)
    \/ CountAndRespond(1)
    \/ Tick

SeqSpec == Init /\ [][SeqNext]_vars

\* ------------------------------------------------- what a record is made of
\* a User-Agent header longer than the 200 characters that are kept
LongUserAgent == [i \in 1..201 |-> IF i = 201 THEN "z" ELSE "u"]

ShortUserAgent == <<"M","o","z"," ","5">>

\* X-Forwarded-For: absent, a list whose first entry is an address, and a
\* value that is not an address
Forwarded ==
    { Absent,
      <<"8",".","8",".","4",".","4",","," ","1",".","1",".","1",".","1">>,
      <<"n","o","n","e">> }

BaseHeaders == [ua |-> ShortUserAgent, xff |-> Absent, remote |-> Remote4]

\* signups that differ in the timestamp the client sent, in the address
\* headers, or in the source and the User-Agent
RecordRequests ==
    [method : {"POST"},
     body : { [kind |-> "object", email |-> A_B_C, source |-> Absent,
               timestamp |-> Absent],
              [kind |-> "object", email |-> <<"b","@","b",".","c">>,
               source |-> Absent, timestamp |-> ClientTime] },
     headers : {BaseHeaders}]
    \cup
    [method : {"POST"},
     body : [kind : {"object"}, email : {A_B_C}, source : {Absent},
             timestamp : {ClientTime}],
     headers : [ua : {ShortUserAgent}, xff : Forwarded, remote : {Remote4, Absent}]]
    \cup
    [method : {"POST"},
     body : [kind : {"object"}, email : {A_B_C},
             source : {Absent, <<>>, <<"x","\n","y">>},
             timestamp : {ClientTime}],
     headers : [ua : {Absent, ShortUserAgent, LongUserAgent}, xff : {Absent},
                remote : {Remote4}]]

\* the ledger is missing or empty when the first request arrives
RecordInit ==
    /\ Init
    /\ csvFile \in {NoFile, EmptyFile}

RecordNext ==
    \/ Receive(1, RecordRequests, {"idle", "done"})
    \/ CheckMethod(1)
    \/ ParseInput(1)
    \/ EnsureDir(1)
    \/ FileExists(1)
    \/ LoadAndCheck(1)
    \/ OpenFile(1)
    \/ WriteHeader(1)
    \/ WriteRow(1)
    \/ CountAndRespond(1)
    \/ Tick

RecordSpec == RecordInit /\ [][RecordNext]_vars

\* ------------------------------------------- a source that holds a row break
\* $input['source'] is stored as it comes: a line break and what follows it
SplitSource == <<"x","\n","b","@","b",".","c",",","y">>

SourceRequests ==
    [method : {"POST"},
     body : { [kind |-> "object", email |-> A_B_C, source |-> SplitSource,
               timestamp |-> Absent],
              [kind |-> "object", email |-> <<"b","@","b",".","c">>,
               source |-> Absent, timestamp |-> Absent] },
     headers : Headers]

SourceNext ==
    \/ Receive(1, SourceRequests, {"idle", "done"})
    \/ CheckMethod(1)
    \/ ParseInput(1)
    \/ EnsureDir(1)
    \/ FileExists(1)
    \/ LoadAndCheck(1)
    \/ OpenFile(1)
    \/ WriteHeader(1)
    \/ WriteRow(1)
    \/ CountAndRespond(1)
    \/ Tick

SourceSpec == Init /\ [][SourceNext]_vars

\* ------------------------------------------------------------ storage faults
Fault == nfaults < MaxFaults /\ nfaults' = nfaults + 1

\* mkdir() fails: a warning, and the script goes on
MkdirFault(p) ==
    /\ pc[p] = "mkdir"
    /\ ~dirExists
    /\ Fault
    /\ touched' = [touched EXCEPT ![p] = TRUE]
    /\ Goto(p, "exists")
    /\ UNCHANGED <<dirExists, csvFile, now, req, email, statCache, csvRow, resp,
                   parsed, pre, answered, nreq>>
    /\ UNCHANGED wvars

\* the stat behind file_exists() fails: the file is taken to be missing
StatFault(p) ==
    /\ pc[p] = "exists"
    /\ csvFile.exists
    /\ Fault
    /\ Goto(p, "open")
    /\ UNCHANGED <<dirExists, csvFile, now, req, email, statCache, csvRow, resp,
                   parsed, touched, pre, answered, nreq>>
    /\ UNCHANGED wvars

\* file() returns false at line 58: array_map() either throws a TypeError,
\* which catch (Exception $e) does not catch (PHP 8), or warns and yields
\* null, and the loop is skipped (PHP 7)
LoadFault(p) ==
    /\ pc[p] = "load"
    /\ Fault
    /\ \/ Send(p, FatalError)
       \/ IF OverLimit(statCache[p])
          THEN Send(p, Unavailable)
          ELSE Goto(p, "open") /\ UNCHANGED <<resp, answered>>
    /\ UNCHANGED <<dirExists, csvFile, now, req, email, statCache, csvRow,
                   parsed, touched, pre, nreq>>
    /\ UNCHANGED wvars

\* fopen() returns false: throw new Exception('Unable to open waitlist file')
OpenFault(p) ==
    /\ pc[p] = "open"
    /\ Fault
    /\ csvRow' = [csvRow EXCEPT ![p] =
                    MakeRow(email[p], now, req[p].body, req[p].headers)]
    /\ Send(p, GenericFailure)
    /\ UNCHANGED <<dirExists, csvFile, now, req, email, statCache,
                   parsed, touched, pre, nreq>>
    /\ UNCHANGED wvars

\* fputcsv() returns false: throw new Exception('Unable to write to ...')
WriteFault(p) ==
    /\ pc[p] = "write"
    /\ Fault
    /\ Send(p, GenericFailure)
    /\ UNCHANGED <<dirExists, csvFile, now, req, email, statCache, csvRow,
                   parsed, touched, pre, nreq>>
    /\ UNCHANGED wvars

\* file() returns false at line 118: count(false) either throws a TypeError
\* (PHP 8) or warns and is 1, so that $waitlistCount is 0 (PHP 7)
CountFault(p) ==
    /\ pc[p] = "count"
    /\ Fault
    /\ \/ Send(p, FatalError)
       \/ Send(p, Welcome(0, csvRow[p][2]))
    /\ UNCHANGED <<dirExists, csvFile, now, req, email, statCache, csvRow,
                   parsed, touched, pre, nreq>>
    /\ UNCHANGED wvars

\* one worker at a time, with storage faults
FaultNext ==
    \/ Receive(1, FaultRequests, {"idle", "done"})
    \/ CheckMethod(1)
    \/ ParseInput(1)
    \/ EnsureDir(1)
    \/ FileExists(1)
    \/ LoadAndCheck(1)
    \/ OpenFile(1)
    \/ WriteHeader(1)
    \/ WriteRow(1)
    \/ CountAndRespond(1)
    \/ MkdirFault(1)
    \/ StatFault(1)
    \/ LoadFault(1)
    \/ OpenFault(1)
    \/ WriteFault(1)
    \/ CountFault(1)
    \/ Tick

FaultSpec == Init /\ [][FaultNext]_vars

\* ------------------------------------------------------- the signup form
\* requests one run of the form sends at most
MaxSends == 2

\* String.prototype.trim(): white space and line terminators at both ends
JsWhitespace == {" ", "\t", "\n", "\r"}

RECURSIVE JsTrimStart(_)
JsTrimStart(s) ==
    IF s # <<>> /\ Head(s) \in JsWhitespace THEN JsTrimStart(Tail(s)) ELSE s

RECURSIVE JsTrimEnd(_)
JsTrimEnd(s) ==
    IF s # <<>> /\ s[Len(s)] \in JsWhitespace
    THEN JsTrimEnd(SubSeq(s, 1, Len(s) - 1))
    ELSE s

JsTrim(s) == JsTrimEnd(JsTrimStart(s))

\* [^\s@]+
NoSpaceNoAt(s) ==
    s # <<>> /\ \A k \in 1..Len(s) : s[k] \notin JsWhitespace \cup {"@"}

\* a pattern that lets a second @ into the domain
emailRegex_SecondAt(s) ==
    \E i, j \in 1..Len(s) :
        /\ s[i] = "@"
        /\ s[j] = "."
        /\ i < j
        /\ NoSpaceNoAt(SubSeq(s, 1, i - 1))
        /\ SubSeq(s, i + 1, j - 1) # <<>>
        /\ \A k \in i + 1..j - 1 : s[k] \notin JsWhitespace
        /\ NoSpaceNoAt(SubSeq(s, j + 1, Len(s)))

\* /^[^\s@]+@[^\s@]+\.[^\s@]+$/.test(s)
emailRegex(s) ==
    \E i, j \in 1..Len(s) :
        /\ s[i] = "@"
        /\ s[j] = "."
        /\ i < j
        /\ NoSpaceNoAt(SubSeq(s, 1, i - 1))
        /\ NoSpaceNoAt(SubSeq(s, i + 1, j - 1))
        /\ NoSpaceNoAt(SubSeq(s, j + 1, Len(s)))

\* the validation with the pattern test left out
validateEmail_EmptyOnly(e) == e # <<>>

\* the value validateEmail(email) returns
validateEmail(e) == e # <<>> /\ emailRegex(e)

\* the message validateEmail(email) passes to showFieldError
FieldMessage(e) ==
    IF e = <<>> THEN Text("Please enter your email address")
    ELSE Text("Please enter a valid email address")

\* #email-error after validateEmail(e): showFieldError or hideFieldError
ErrorAfterValidate(e) ==
    IF validateEmail(e) THEN [emailError EXCEPT !.show = FALSE]
    ELSE [text |-> FieldMessage(e), show |-> TRUE]

\* the live region after validateEmail(e): showFieldError announces
LiveAfterValidate(e) ==
    IF validateEmail(e) THEN liveRegion ELSE FieldMessage(e)

\* what the user can type into the field
Typed ==
    { <<>>,
      <<" ","a","@","b",".","c">>,
      <<"b","@","b",".",".","c">>,
      <<"a","@","b">> }

\* what a listener that calls validateEmail(e) gets back: true or false
Returned(e) == IF validateEmail(e) THEN "true" ELSE "false"

\* 'input' listener: the field holds v, validateEmail(e.target.value)
InputFrom(values) ==
    /\ ~emailInput.disabled
    /\ \E v \in values :
          /\ emailInput' = [emailInput EXCEPT !.value = v]
          /\ emailError' = ErrorAfterValidate(v)
          /\ liveRegion' = LiveAfterValidate(v)
          /\ last' = Step("input", Returned(v), NoCall, NoResult)
    /\ UNCHANGED <<isSubmitting, submitBtn, successMessage, globalError,
                   localStorage, inflight, hideTimers, tracked, nsent>>
    /\ UNCHANGED <<svars, tabs>>

Input == InputFrom(Typed)

\* 'blur' listener: validateEmail(e.target.value)
Blur ==
    /\ emailError' = ErrorAfterValidate(emailInput.value)
    /\ liveRegion' = LiveAfterValidate(emailInput.value)
    /\ last' = Step("blur", Returned(emailInput.value), NoCall, NoResult)
    /\ UNCHANGED <<isSubmitting, submitBtn, emailInput, successMessage,
                   globalError, localStorage, inflight, hideTimers, tracked,
                   nsent>>
    /\ UNCHANGED <<svars, tabs>>

\* 'focus' listener: clearMessages()
Focus ==
    /\ emailError' = [emailError EXCEPT !.show = FALSE]
    /\ successMessage' = [successMessage EXCEPT !.show = FALSE]
    /\ globalError' = [globalError EXCEPT !.show = FALSE]
    /\ last' = Step("focus", "cleared", NoCall, NoResult)
    /\ UNCHANGED <<isSubmitting, submitBtn, emailInput, liveRegion,
                   localStorage, inflight, hideTimers, tracked, nsent>>
    /\ UNCHANGED <<svars, tabs>>

\* body of the fetch request
RequestBody(e) ==
    [kind |-> "object", email |-> e, source |-> DefaultSource,
     timestamp |-> ClientTime]

\* handleSubmit without its isSubmitting test
handleSubmit_NoGuard(handler) ==
    LET e == JsTrim(emailInput.value)
        call == [email |-> e, stage |-> "fetch", reached |-> FALSE,
                 answer |-> NoResp, body |-> RequestBody(e)]
    IN  IF ~validateEmail(e)
        THEN /\ emailError' = ErrorAfterValidate(e)
             /\ liveRegion' = LiveAfterValidate(e)
             /\ last' = Step(handler, "invalid", NoCall, NoResult)
             /\ UNCHANGED <<isSubmitting, submitBtn, emailInput, inflight, nsent>>
        ELSE /\ nsent < MaxSends
             /\ emailError' = ErrorAfterValidate(e)
             /\ liveRegion' = LiveAfterValidate(e)
             /\ isSubmitting' = TRUE
             /\ submitBtn' = [disabled |-> TRUE, ariaBusy |-> TRUE]
             /\ emailInput' = [emailInput EXCEPT !.disabled = TRUE]
             /\ inflight' = Append(inflight, call)
             /\ nsent' = nsent + 1
             /\ last' = Step(handler, "sent", call, NoResult)

\* handleSubmit(e) up to its first await: the guard, the validation of the
\* trimmed value, setLoadingState(true) and the fetch call
handleSubmit(handler) ==
    LET e == JsTrim(emailInput.value)
        call == [email |-> e, stage |-> "fetch", reached |-> FALSE,
                 answer |-> NoResp, body |-> RequestBody(e)]
    IN  IF isSubmitting
        THEN /\ last' = Step(handler, "ignored", NoCall, NoResult)
             /\ UNCHANGED <<isSubmitting, submitBtn, emailInput, emailError,
                            liveRegion, inflight, nsent>>
        ELSE IF ~validateEmail(e)
        THEN /\ emailError' = ErrorAfterValidate(e)
             /\ liveRegion' = LiveAfterValidate(e)
             /\ last' = Step(handler, "invalid", NoCall, NoResult)
             /\ UNCHANGED <<isSubmitting, submitBtn, emailInput, inflight, nsent>>
        ELSE /\ nsent < MaxSends
             /\ emailError' = ErrorAfterValidate(e)
             /\ liveRegion' = LiveAfterValidate(e)
             /\ isSubmitting' = TRUE
             /\ submitBtn' = [disabled |-> TRUE, ariaBusy |-> TRUE]
             /\ emailInput' = [emailInput EXCEPT !.disabled = TRUE]
             /\ inflight' = Append(inflight, call)
             /\ nsent' = nsent + 1
             /\ last' = Step(handler, "sent", call, NoResult)

\* 'submit' listener of the form
Submit ==
    /\ handleSubmit("submit")
    /\ UNCHANGED <<successMessage, globalError, localStorage, hideTimers, tracked>>
    /\ UNCHANGED <<svars, tabs>>

\* 'keypress' listener of the field: Enter while nothing is being submitted
KeypressEnter ==
    /\ IF ~isSubmitting
       THEN handleSubmit("keypress")
       ELSE /\ last' = Step("keypress", "ignored", NoCall, NoResult)
            /\ UNCHANGED <<isSubmitting, submitBtn, emailInput, emailError,
                           liveRegion, inflight, nsent>>
    /\ UNCHANGED <<successMessage, globalError, localStorage, hideTimers, tracked>>
    /\ UNCHANGED <<svars, tabs>>

\* response.ok
Ok(r) == r.status >= 200 /\ r.status <= 299

\* a 200 answer that reports a failure without a message
Refused == Json(200, FALSE, "")

\* what the service can answer to the form's POST
Answers ==
    { Welcome(1, FormatDate(0)), AlreadyOnList, Refused, InvalidFormat,
      MethodNotAllowed, Unavailable, GenericFailure, FatalError }

\* await response.json() of an answer of the service
JsonResult(r) ==
    [success |-> r.success, message |-> Text(r.message),
     alreadyExists |-> r.alreadyExists, waitlistPosition |-> r.waitlistPosition,
     timestamp |-> r.timestamp, demoMode |-> FALSE, origin |-> "service"]

\* a || b on message texts
OrText(a, b) == IF a.text # "" THEN a ELSE b

RemoveAt(s, i) == SubSeq(s, 1, i - 1) \o SubSeq(s, i + 1, Len(s))

InSeq(x, s) == \E k \in 1..Len(s) : s[k] = x

\* the rest of handleSubmit once submitToWaitlist has settled with result res
\* for the i-th waiting call: the success or the error branch, then finally
Settle(i, call, res, handler) ==
    LET shown == IF res.success
                 THEN OrText(res.message, Text("Successfully joined the waitlist!"))
                 ELSE OrText(OrText(res.message, Text("Failed to join waitlist")),
                             Text("Something went wrong. Please try again."))
    IN  /\ IF res.success
           THEN /\ successMessage' = [text |-> shown, show |-> TRUE]
                /\ hideTimers' = [hideTimers EXCEPT !.success = @ + 1]
                /\ emailInput' = [value |-> <<>>, disabled |-> FALSE]
                /\ emailError' = [emailError EXCEPT !.show = FALSE]
                /\ tracked' = Append(tracked,
                       [name |-> "waitlist_join_success", email |-> call.email,
                        error |-> NoText])
                /\ UNCHANGED globalError
           ELSE /\ globalError' = [text |-> shown, show |-> TRUE]
                /\ hideTimers' = [hideTimers EXCEPT !.error = @ + 1]
                /\ emailInput' = [emailInput EXCEPT !.disabled = FALSE]
                /\ tracked' = Append(tracked,
                       [name |-> "waitlist_join_error", email |-> Absent,
                        error |-> shown])
                /\ UNCHANGED <<successMessage, emailError>>
        /\ liveRegion' = shown
        /\ isSubmitting' = FALSE
        /\ submitBtn' = [disabled |-> FALSE, ariaBusy |-> FALSE]
        /\ inflight' = RemoveAt(inflight, i)
        /\ last' = Step(handler, "settled", call, res)

\* the fetch of a call is answered by the service: a JSON answer with an ok
\* status is the result; any other answer throws inside submitToWaitlist's
\* try, and its catch starts the 800 ms timer of the demo mode
FetchAnswered ==
    \E i \in 1..Len(inflight) : \E r \in Answers :
        /\ inflight[i].stage = "fetch"
        /\ LET call == [inflight[i] EXCEPT !.reached = TRUE, !.answer = r]
           IN  IF Ok(r)
               THEN /\ Settle(i, call, JsonResult(r), "answer")
                    /\ UNCHANGED localStorage
               ELSE /\ inflight' = [inflight EXCEPT ![i] = [call EXCEPT !.stage = "timer"]]
                    /\ last' = Step("answer", "caught", call, NoResult)
                    /\ UNCHANGED <<isSubmitting, submitBtn, emailInput, emailError,
                                   successMessage, globalError, liveRegion,
                                   localStorage, hideTimers, tracked>>
        /\ UNCHANGED nsent
        /\ UNCHANGED <<svars, tabs>>

\* the fetch of a call rejects: the service was not reached
FetchFailed ==
    \E i \in 1..Len(inflight) :
        /\ inflight[i].stage = "fetch"
        /\ inflight' = [inflight EXCEPT ![i].stage = "timer"]
        /\ last' = Step("reject", "caught", inflight[i], NoResult)
        /\ UNCHANGED <<isSubmitting, submitBtn, emailInput, emailError,
                       successMessage, globalError, liveRegion, localStorage,
                       hideTimers, tracked, nsent>>
        /\ UNCHANGED <<svars, tabs>>

\* a simulation that reports a failure for a new email
DemoResult_Failure(e, emails) ==
    IF InSeq(e, emails)
    THEN [success |-> TRUE, message |-> Text("You're already on the waitlist! We'll notify you when Kenz Tasks launches."),
          alreadyExists |-> TRUE, waitlistPosition |-> Len(emails),
          timestamp |-> Absent, demoMode |-> FALSE, origin |-> "fallback"]
    ELSE [success |-> FALSE, message |-> Text("Server temporarily unavailable. Please try again."),
          alreadyExists |-> FALSE, waitlistPosition |-> -1,
          timestamp |-> Absent, demoMode |-> FALSE, origin |-> "fallback"]

\* the result the demo mode resolves with for email e and the stored list
DemoResult(e, emails) ==
    IF InSeq(e, emails)
    THEN [success |-> TRUE,
          message |-> Text("You're already on the waitlist! We'll notify you when Kenz Tasks launches."),
          alreadyExists |-> TRUE, waitlistPosition |-> Len(emails),
          timestamp |-> Absent, demoMode |-> FALSE, origin |-> "fallback"]
    ELSE [success |-> TRUE,
          message |-> [text |-> "Welcome to the waitlist! You're #n in line. We'll notify you when Kenz Tasks launches.",
                       n |-> Len(emails) + 1],
          alreadyExists |-> FALSE, waitlistPosition |-> Len(emails) + 1,
          timestamp |-> ClientTime, demoMode |-> TRUE, origin |-> "fallback"]

\* a store that counts positions from zero
DemoStore_ZeroBased(e, store) ==
    IF InSeq(e, store.waitlist_emails) THEN store
    ELSE [waitlist_emails |-> Append(store.waitlist_emails, e),
          waitlist_data |-> {d \in store.waitlist_data : d.email # e}
              \cup {[email |-> e, timestamp |-> ClientTime, source |-> "github_pages_demo",
                     position |-> Len(store.waitlist_emails)]}]

\* localStorage after the demo mode has handled email e
DemoStore(e, store) ==
    IF InSeq(e, store.waitlist_emails) THEN store
    ELSE [waitlist_emails |-> Append(store.waitlist_emails, e),
          waitlist_data |->
              {d \in store.waitlist_data : d.email # e}
              \cup {[email |-> e, timestamp |-> ClientTime,
                     source |-> "github_pages_demo",
                     position |-> Len(store.waitlist_emails) + 1]}]

\* the timer of the demo mode fires, and handleSubmit goes on with its result
DemoTimer ==
    \E i \in 1..Len(inflight) :
        /\ inflight[i].stage = "timer"
        /\ localStorage' = DemoStore(inflight[i].email, localStorage)
        /\ Settle(i, inflight[i],
                  DemoResult(inflight[i].email, localStorage.waitlist_emails),
                  "timer")
        /\ UNCHANGED nsent
        /\ UNCHANGED <<svars, tabs>>

\* the 5 s timer of showSuccessMessage fires
HideSuccess ==
    /\ hideTimers.success > 0
    /\ hideTimers' = [hideTimers EXCEPT !.success = @ - 1]
    /\ successMessage' = [successMessage EXCEPT !.show = FALSE]
    /\ last' = Step("hide", "success", NoCall, NoResult)
    /\ UNCHANGED <<isSubmitting, submitBtn, emailInput, emailError, globalError,
                   liveRegion, localStorage, inflight, tracked, nsent>>
    /\ UNCHANGED <<svars, tabs>>

\* the 5 s timer of showErrorMessage fires
HideError ==
    /\ hideTimers.error > 0
    /\ hideTimers' = [hideTimers EXCEPT !.error = @ - 1]
    /\ globalError' = [globalError EXCEPT !.show = FALSE]
    /\ last' = Step("hide", "error", NoCall, NoResult)
    /\ UNCHANGED <<isSubmitting, submitBtn, emailInput, emailError,
                   successMessage, liveRegion, localStorage, inflight, tracked,
                   nsent>>
    /\ UNCHANGED <<svars, tabs>>

\* the lists an earlier visit can have left in localStorage
StoredLists ==
    { EmptyStorage,
      DemoStore(A_B_C, EmptyStorage) }

WidgetInit ==
    /\ ServerInit
    /\ ~dirExists
    /\ \E store \in StoredLists : Constructed(store)

WidgetNext ==
    \/ Input
    \/ Blur
    \/ Focus
    \/ Submit
    \/ KeypressEnter
    \/ FetchAnswered
    \/ FetchFailed
    \/ DemoTimer
    \/ HideSuccess
    \/ HideError

WidgetSpec == WidgetInit /\ [][WidgetNext]_vars

\* ------------------------------------------------ validateEmail on its own
\* longest candidate typed into the field
MaxLen == 5

\* a letter, the two marks of the pattern, and white space
Alphabet == {"a", "@", ".", " "}

\* every string of at most MaxLen characters
Candidates == UNION {[1..n -> Alphabet] : n \in 0..MaxLen}

\* the form is built on a field that holds a candidate already: the browser
\* restores what was typed before a reload
ValidateInit ==
    /\ ServerInit
    /\ ~dirExists
    /\ \E store \in StoredLists : \E v \in Candidates : ConstructedWith(store, v)

ValidateNext ==
    \/ Input
    \/ Blur
    \/ Focus
    \/ Submit
    \/ FetchFailed
    \/ DemoTimer

ValidateSpec == ValidateInit /\ [][ValidateNext]_vars

\* --------------------------------------------- a localStorage that throws
\* getItem and setItem throw when storage is denied or full, and JSON.parse
\* throws on a value that is not JSON.  Inside the setTimeout callback nothing
\* catches the exception and neither resolve nor reject is called: the Promise
\* submitToWaitlist returned stays pending, and so does handleSubmit's await.
ThrowPoints == {"getEmails", "setEmails", "getData", "setData"}

\* localStorage when the callback stops at point k while handling email e
StoreUntil(k, e, store) ==
    IF k \in {"getData", "setData"}
    THEN [store EXCEPT !.waitlist_emails = Append(@, e)]
    ELSE store

\* the timer of the demo mode fires and its callback throws
DemoTimerThrows ==
    \E i \in 1..Len(inflight) : \E k \in ThrowPoints :
        /\ inflight[i].stage = "timer"
        /\ k # "getEmails" => ~InSeq(inflight[i].email, localStorage.waitlist_emails)
        /\ localStorage' = StoreUntil(k, inflight[i].email, localStorage)
        /\ inflight' = [inflight EXCEPT ![i].stage = "pending"]
        /\ last' = Step("timer", "thrown", inflight[i], NoResult)
        /\ UNCHANGED <<isSubmitting, submitBtn, emailInput, emailError,
                       successMessage, globalError, liveRegion, hideTimers,
                       tracked, nsent>>
        /\ UNCHANGED <<svars, tabs>>

StorageNext ==
    \/ WidgetNext
    \/ DemoTimerThrows

\* the network call settles and the timer fires
StorageFairness ==
    /\ WF_vars(FetchAnswered \/ FetchFailed)
    /\ WF_vars(DemoTimer \/ DemoTimerThrows)

StorageSpec == WidgetInit /\ [][StorageNext]_vars /\ StorageFairness

\* ------------------------------------------- tabs that share localStorage
\* Each tab runs its own WaitlistManager; localStorage is the one of the
\* origin.  Nothing locks it between the getItem and the setItem calls of a
\* timer callback, so the calls of two tabs can interleave.  Of a tab only
\* what the demo simulation reads and writes is kept; what its form shows is
\* as in Settle.
DemoEmails == {A_B_C, <<"b","@","b",".","c">>}

\* handleSubmit of tab t with a valid email, and the fetch rejected: the catch
\* of submitToWaitlist starts the 800 ms timer
TabSubmit(t) ==
    /\ tabs[t].stage = "idle"
    /\ nsent < MaxSends
    /\ nsent' = nsent + 1
    /\ \E e \in DemoEmails :
          tabs' = [tabs EXCEPT ![t] =
                      [@ EXCEPT !.stage = "timer", !.email = e,
                                !.result = NoResult, !.wrote = FALSE]]
    /\ UNCHANGED <<isSubmitting, submitBtn, emailInput, emailError,
                   successMessage, globalError, liveRegion, localStorage,
                   inflight, hideTimers, tracked, last>>
    /\ UNCHANGED svars

\* the timer of tab t fires: getItem('waitlist_emails'), and the result for
\* an email that is in the list
TabReadEmails(t) ==
    /\ tabs[t].stage = "timer"
    /\ LET list == localStorage.waitlist_emails
       IN  tabs' = [tabs EXCEPT ![t] =
                IF InSeq(@.email, list)
                THEN [@ EXCEPT !.stage = "idle", !.existingEmails = list,
                               !.result = DemoResult(tabs[t].email, list),
                               !.resolved = @ \cup {tabs[t].email}]
                ELSE [@ EXCEPT !.stage = "push", !.existingEmails = list]]
    /\ UNCHANGED <<isSubmitting, submitBtn, emailInput, emailError,
                   successMessage, globalError, liveRegion, localStorage,
                   inflight, hideTimers, tracked, nsent, last>>
    /\ UNCHANGED svars

\* existingEmails.push(email); setItem('waitlist_emails', ...)
TabWriteEmails(t) ==
    /\ tabs[t].stage = "push"
    /\ LET list == Append(tabs[t].existingEmails, tabs[t].email)
       IN  /\ localStorage' = [localStorage EXCEPT !.waitlist_emails = list]
           /\ tabs' = [tabs EXCEPT ![t] =
                          [@ EXCEPT !.stage = "data", !.existingEmails = list,
                                    !.wrote = TRUE]]
    /\ UNCHANGED <<isSubmitting, submitBtn, emailInput, emailError,
                   successMessage, globalError, liveRegion,
                   inflight, hideTimers, tracked, nsent, last>>
    /\ UNCHANGED svars

\* getItem('waitlist_data')
TabReadData(t) ==
    /\ tabs[t].stage = "data"
    /\ tabs' = [tabs EXCEPT ![t] =
                   [@ EXCEPT !.stage = "putdata",
                             !.waitlistData = localStorage.waitlist_data]]
    /\ UNCHANGED <<isSubmitting, submitBtn, emailInput, emailError,
                   successMessage, globalError, liveRegion, localStorage,
                   inflight, hideTimers, tracked, nsent, last>>
    /\ UNCHANGED svars

\* waitlistData[email] = {...}; setItem('waitlist_data', ...); resolve({...})
TabWriteData(t) ==
    /\ tabs[t].stage = "putdata"
    /\ LET e == tabs[t].email
           position == Len(tabs[t].existingEmails)
           data == {d \in tabs[t].waitlistData : d.email # e}
                   \cup {[email |-> e, timestamp |-> ClientTime,
                          source |-> "github_pages_demo",
                          position |-> position]}
       IN  /\ localStorage' = [localStorage EXCEPT !.waitlist_data = data]
           /\ tabs' = [tabs EXCEPT ![t] =
                  [@ EXCEPT !.stage = "idle", !.waitlistData = data,
                            !.resolved = @ \cup {e},
                            !.result =
                                [success |-> TRUE,
                                 message |-> [text |-> "Welcome to the waitlist! You're #n in line. We'll notify you when Kenz Tasks launches.",
                                              n |-> position],
                                 alreadyExists |-> FALSE,
                                 waitlistPosition |-> position,
                                 timestamp |-> ClientTime, demoMode |-> TRUE,
                                 origin |-> "fallback"]]]
    /\ UNCHANGED <<isSubmitting, submitBtn, emailInput, emailError,
                   successMessage, globalError, liveRegion,
                   inflight, hideTimers, tracked, nsent, last>>
    /\ UNCHANGED svars

TabsNext ==
    \/ \E t \in Tabs : TabSubmit(t)
    \/ \E t \in Tabs : TabReadEmails(t)
    \/ \E t \in Tabs : TabWriteEmails(t)
    \/ \E t \in Tabs : TabReadData(t)
    \/ \E t \in Tabs : TabWriteData(t)

TabsSpec == WidgetInit /\ [][TabsNext]_vars

\* --------------------------- the ledger as a table (used by the properties)
\* lower-casing, to compare emails case-insensitively
LowerSeq == <<"a","b","c","d","e","f","g","h","i","j","k","l","m",
              "n","o","p","q","r","s","t","u","v","w","x","y","z">>
UpperSeq == <<"A","B","C","D","E","F","G","H","I","J","K","L","M",
              "N","O","P","Q","R","S","T","U","V","W","X","Y","Z">>

ToLowerChar(c) ==
    IF c \in UpperCase THEN LowerSeq[CHOOSE i \in 1..26 : UpperSeq[i] = c] ELSE c

ToLower(s) == [i \in 1..Len(s) |-> ToLowerChar(s[i])]

\* a row of the table as a CSV reader sees it: a maximal run of physical
\* lines whose enclosures are balanced
QuoteCount(s) == Cardinality({i \in 1..Len(s) : s[i] = Quote})

RECURSIVE JoinRows(_, _)
JoinRows(lines, open) ==
    IF lines = <<>> THEN (IF open = Absent THEN <<>> ELSE <<open>>)
    ELSE LET cur == IF open = Absent THEN Head(lines)
                    ELSE open \o <<"\n">> \o Head(lines)
         IN  IF QuoteCount(cur) % 2 = 0
             THEN <<cur>> \o JoinRows(Tail(lines), Absent)
             ELSE JoinRows(Tail(lines), cur)

CsvRows(lines) == JoinRows(lines, Absent)

HeaderLine == CsvJoin(HeaderRow)

\* the rows of the table written in the run, header rows included
TableRows(f) == CsvRows(f.lines)

RecordRows(f) == SelectSeq(TableRows(f), LAMBDA r : r # HeaderLine)

HeaderRows(f) == SelectSeq(TableRows(f), LAMBDA r : r = HeaderLine)

\* number of signup records in the ledger, header row not counted
RecordCount(f) ==
    (IF f.oldLines > 0 THEN f.oldLines - 1 ELSE 0) + Len(RecordRows(f))

\* number of records of the ledger whose email is e
RecordsOf(f, e) ==
    Cardinality({i \in 1..Len(RecordRows(f)) : FirstCell(RecordRows(f)[i]) = e})

IsPrefix(s, t) == Len(s) <= Len(t) /\ SubSeq(t, 1, Len(s)) = s

Finished(p) == pc[p] = "done"

\* the request of worker p is a POST with a well-formed email
ValidPost(p) ==
    /\ req[p].method = "POST"
    /\ ~EmailMissing(req[p].body)
    /\ ValidateEmail(SanitizeEmail(Trim(req[p].body.email)))

\* ------------------------------------------------------------------ claims

\* C1: two requests that ran concurrently with the same valid email, absent
\* from the ledger when each of them arrived, leave exactly one record for
\* that email once both have finished.
C1_OneRecordForConcurrentDuplicates ==
    \A p, q \in Procs :
        ( /\ p # q
          /\ Finished(p) /\ Finished(q)
          /\ ValidPost(p) /\ ValidPost(q)
          /\ email[p] = email[q]
          /\ RecordsOf(pre[p].file, email[p]) = 0
          /\ RecordsOf(pre[q].file, email[q]) = 0
          /\ FileSize(csvFile) <= maxFileSize )
        => RecordsOf(csvFile, email[p]) = 1

\* C2: when the N requests of a run carried N pairwise distinct valid emails
\* and all have finished, the ledger has exactly N new record rows and no
\* other new row: one header row when it started missing or empty, none
\* otherwise.
C2_DistinctEmailsNRows ==
    LET done == {p \in Procs : Finished(p)}
    IN  ( /\ \A p \in Procs : pc[p] \in {"idle", "done"}
          /\ nreq = Cardinality(done)
          /\ \A p \in done : ValidPost(p)
          /\ \A p, q \in done : p # q => email[p] # email[q]
          /\ FileSize(csvFile) <= maxFileSize )
        => /\ Len(RecordRows(csvFile)) = Cardinality(done)
           /\ Len(HeaderRows(csvFile)) = (IF csvFile.oldLines = 0 /\ done # {} THEN 1 ELSE 0)

\* C3: a request whose email an earlier request was answered success for gets
\* success=true and alreadyExists=true, and leaves the ledger with the number
\* of records it had when the request arrived.
C3_SecondSubmissionIdempotent ==
    ( /\ Finished(1)
      /\ req[1].method = "POST"
      /\ email[1] \in pre[1].answered )
    => /\ resp[1].status = 200
       /\ resp[1].success
       /\ resp[1].alreadyExists
       /\ RecordCount(csvFile) = RecordCount(pre[1].file)
       /\ csvFile = pre[1].file

C3_Witness ==
    /\ Finished(1)
    /\ req[1].method = "POST"
    /\ email[1] \in pre[1].answered
    /\ resp[1].body = "json"
    /\ resp[1].alreadyExists
    /\ RecordCount(csvFile) > 0

\* C4: a single sequential submission of a valid email that is not in the
\* ledger, whatever its source field, answers success without alreadyExists
\* and with waitlistPosition = 1 + the number of records before the request.
C4_PositionIsPriorCountPlusOne ==
    ( /\ Finished(1)
      /\ ValidPost(1)
      /\ RecordsOf(pre[1].file, email[1]) = 0
      /\ FileSize(pre[1].file) <= maxFileSize )
    => /\ resp[1].success
       /\ ~resp[1].alreadyExists
       /\ resp[1].waitlistPosition = 1 + RecordCount(pre[1].file)

\* C5: no two records of the ledger have emails that are equal when compared
\* case-insensitively.
C5_EmailsUniqueIgnoringCase ==
    LET rows == RecordRows(csvFile)
    IN  \A i, j \in 1..Len(rows) :
            i # j => ToLower(FirstCell(rows[i])) # ToLower(FirstCell(rows[j]))

\* C6: a POST without a payload, without the email field, or with an email
\* that fails format validation after trimming and sanitizing is answered
\* 400 with success=false, and the ledger file and its directory are as they
\* were when the request arrived.
C6_InvalidInputRejected ==
    ( /\ Finished(1)
      /\ req[1].method = "POST"
      /\ ~ValidPost(1) )
    => /\ resp[1].status = 400
       /\ resp[1].body = "json"
       /\ ~resp[1].success
       /\ ~touched[1]
       /\ csvFile = pre[1].file
       /\ dirExists = pre[1].dir

C6_Witness ==
    /\ Finished(1)
    /\ req[1].method = "POST"
    /\ req[1].body.kind = "object"
    /\ req[1].body.email = <<"a","@","b">>
    /\ resp[1] = InvalidFormat
    /\ ~dirExists

\* C7: a request whose method is not POST is answered before its payload is
\* parsed and without a file-system call: OPTIONS with status 200 and no
\* body, any other method with status 405 and success=false.
C7_NonPostNeverTouchesLedger ==
    \A p \in Procs :
        (pc[p] # "idle" /\ req[p].method # "POST")
        => /\ ~parsed[p]
           /\ ~touched[p]
           /\ pc[p] \in {"method", "done"}
           /\ csvFile = pre[p].file
           /\ dirExists = pre[p].dir
           /\ Finished(p) =>
                IF req[p].method = "OPTIONS"
                THEN resp[p] = Preflight
                ELSE /\ resp[p].status = 405
                     /\ resp[p].body = "json"
                     /\ ~resp[p].success

C7_Witness ==
    /\ Finished(1)
    /\ req[1].method = "OPTIONS"
    /\ req[1].body.kind = "object"
    /\ resp[1] = Preflight

\* C8 as stated: a valid email not in the ledger, submitted when the file's
\* size is at or above the bound, is answered 500 with success=false and the
\* ledger is unchanged.
C8_AtOrAboveBoundRejected ==
    ( /\ Finished(1)
      /\ ValidPost(1)
      /\ RecordsOf(pre[1].file, email[1]) = 0
      /\ pre[1].file.exists
      /\ FileSize(pre[1].file) >= maxFileSize )
    => /\ resp[1].status = 500
       /\ ~resp[1].success
       /\ csvFile = pre[1].file

\* C8 amended: a valid email not in the ledger, submitted when the file's size
\* is strictly above the bound, is answered 500 with success=false and the
\* ledger is unchanged; this holds for every request of the run.
C8_AboveBoundRejected ==
    ( /\ Finished(1)
      /\ ValidPost(1)
      /\ RecordsOf(pre[1].file, email[1]) = 0
      /\ pre[1].file.exists
      /\ FileSize(pre[1].file) > maxFileSize )
    => /\ resp[1].status = 500
       /\ resp[1].body = "json"
       /\ ~resp[1].success
       /\ csvFile = pre[1].file

C8_Witness ==
    /\ Finished(1)
    /\ ValidPost(1)
    /\ nreq >= 2
    /\ FileSize(pre[1].file) > maxFileSize
    /\ resp[1] = Unavailable
    /\ csvFile = pre[1].file

\* C9: the ledger is append-only: the lines it had when a request arrived are
\* a prefix of its lines at every later moment of the request and after it,
\* whatever the request's outcome; the file is not removed, and the number of
\* records does not decrease.
C9_AppendOnly ==
    \A p \in Procs :
        pc[p] # "idle"
        => /\ pre[p].file.exists => csvFile.exists
           /\ csvFile.oldLines = pre[p].file.oldLines
           /\ csvFile.oldBytes = pre[p].file.oldBytes
           /\ IsPrefix(pre[p].file.lines, csvFile.lines)
           /\ RecordCount(csvFile) >= RecordCount(pre[p].file)

C9_Witness ==
    \E p \in Procs :
        /\ Finished(p)
        /\ pre[p].file.lines # <<>>
        /\ Len(csvFile.lines) > Len(pre[p].file.lines)
        /\ RecordCount(csvFile) > RecordCount(pre[p].file)

\* C10: a validated POST during which a storage fault occurred is answered
\* with status 500, success=false and the fixed generic failure message.
C10_FaultsAnsweredGenerically ==
    ( /\ Finished(1)
      /\ ValidPost(1)
      /\ nfaults > pre[1].nfaults )
    => resp[1] = GenericFailure

\* C11: the form never has more than one submission in flight: after any
\* sequence of submit and Enter-keypress events at most one call waits for
\* its answer, a handleSubmit that starts while isSubmitting is true sends no
\* request and leaves no call behind, and the submit button is disabled
\* exactly when isSubmitting is true.
C11_OneSubmissionInFlight ==
    /\ Len(inflight) <= 1
    /\ submitBtn.disabled = isSubmitting
    /\ isSubmitting = (inflight # <<>>)
    /\ (last.handler \in {"submit", "keypress"} /\ last.pre.isSubmitting)
       => /\ nsent = last.pre.nsent
          /\ Len(inflight) = last.pre.inflight
          /\ isSubmitting

C11_Witness ==
    /\ last.handler = "submit"
    /\ last.pre.isSubmitting
    /\ validateEmail(JsTrim(emailInput.value))
    /\ nsent = 1
    /\ nsent < MaxSends
    /\ Len(inflight) = 1
    /\ submitBtn.disabled

\* the last handler ended a submission
Settled == last.outcome = "settled"

\* the service was reached and answered with a failure: status 400, 405 or
\* 500, or success=false
FailureAnswer(r) ==
    \/ r.status \in {400, 405, 500}
    \/ r.body = "json" /\ ~r.success

ServiceFailed == Settled /\ last.call.reached /\ FailureAnswer(last.call.answer)

\* C12: the simulated acceptance is used only when the service was not
\* reached; a submission the service answered with a failure ends with the
\* error message shown, the success message untouched, local storage as it
\* was and the entered email still in the field.
C12_FallbackOnlyWhenUnreachable ==
    /\ (Settled /\ last.result.origin = "fallback") => ~last.call.reached
    /\ ServiceFailed
       => /\ globalError.show
          /\ successMessage = last.pre.successMessage
          /\ localStorage = last.pre.localStorage
          /\ emailInput.value = last.pre.value

\* the event trackEvent gets for a registration the service accepted
GenuineEvent(e) ==
    [name |-> "waitlist_join_success", email |-> e, error |-> NoText]

\* C13: every result of the local fallback, for a new email and for one
\* already in the local list, carries demoMode, no result of the service
\* carries it, and the event tracked for a simulated acceptance is not the
\* event tracked for a genuine registration.
C13_SimulatedResultsFlagged ==
    Settled
    => /\ last.result.origin = "fallback" => last.result.demoMode
       /\ last.result.origin = "service" => ~last.result.demoMode
       /\ (last.result.origin = "fallback" /\ last.result.success)
          => tracked[Len(tracked)] # GenuineEvent(last.call.email)

\* the trimmed value fails the form's validation: empty, or no match
FailsValidation(v) == JsTrim(v) = <<>> \/ ~emailRegex(JsTrim(v))

\* C14: a handleSubmit whose trimmed input fails the validation sends no
\* request, does not set isSubmitting, shows the inline field error and
\* leaves local storage as it was.
C14_InvalidInputSendsNothing ==
    (last.handler \in {"submit", "keypress"} /\ FailsValidation(last.pre.value))
    => /\ nsent = last.pre.nsent
       /\ Len(inflight) = last.pre.inflight
       /\ inflight = <<>>
       /\ ~isSubmitting
       /\ ~submitBtn.disabled
       /\ emailError.show
       /\ emailError.text = FieldMessage(JsTrim(last.pre.value))
       /\ localStorage = last.pre.localStorage
       /\ emailInput.value = last.pre.value

C14_Witness ==
    /\ last.handler = "submit"
    /\ last.pre.value = <<"a","@","b">>
    /\ last.pre.nsent = 1
    /\ emailError.show
    /\ emailError.text = Text("Please enter a valid email address")
    /\ localStorage.waitlist_emails # <<>>

\* C15: the three outcomes are shown apart: an alreadyExists result in the
\* success region with its message and not in the global error region, a
\* request the service failed in the global error region and not in the
\* success region, a validation failure in the inline field error; and in
\* each case the live region holds the shown message.
C15_OutcomesKeptApart ==
    /\ (Settled /\ last.result.alreadyExists)
       => /\ successMessage = [text |-> last.result.message, show |-> TRUE]
          /\ globalError = last.pre.globalError
          /\ liveRegion = successMessage.text
    /\ ServiceFailed
       => /\ globalError.show
          /\ successMessage = last.pre.successMessage
          /\ liveRegion = globalError.text
    /\ last.outcome = "invalid"
       => /\ emailError.show
          /\ liveRegion = emailError.text

\* the position of the first comma of s at or after i, Len(s) + 1 without one
NextComma(s, i) ==
    IF \E k \in i..Len(s) : s[k] = ","
    THEN CHOOSE k \in i..Len(s) :
            s[k] = "," /\ \A m \in i..(k - 1) : s[m] # ","
    ELSE Len(s) + 1

\* the cells a CSV reader finds in a row from position i on: a cell that
\* begins with a quote ends at a quote that is not doubled, any other cell
\* at the next comma
RECURSIVE CsvCellsFrom(_, _, _, _)
CsvCellsFrom(s, i, cur, enclosed) ==
    IF i > Len(s) THEN <<cur>>
    ELSE IF enclosed
    THEN IF s[i] # Quote THEN CsvCellsFrom(s, i + 1, Append(cur, s[i]), TRUE)
         ELSE IF i < Len(s) /\ s[i + 1] = Quote
         THEN CsvCellsFrom(s, i + 2, Append(cur, Quote), TRUE)
         ELSE CsvCellsFrom(s, i + 1, cur, FALSE)
    ELSE IF s[i] = Quote /\ cur = <<>> THEN CsvCellsFrom(s, i + 1, cur, TRUE)
    ELSE LET j == NextComma(s, i)
         IN  IF j > Len(s) THEN <<cur \o SubSeq(s, i, Len(s))>>
             ELSE <<cur \o SubSeq(s, i, j - 1)>> \o CsvCellsFrom(s, j + 1, <<>>, FALSE)

CsvCells(row) == CsvCellsFrom(row, 1, <<>>, FALSE)

Unknown == <<"u","n","k","n","o","w","n">>

\* five cells in the order email, timestamp, source, ip_address, user_agent:
\* the email of a request of the run, a time of the server clock, an address
\* or "unknown", at most 200 characters of User-Agent
IsSignupRecord(cells) ==
    /\ Len(cells) = 5
    /\ cells[1] \in answered \cup {email[1]}
    /\ cells[1] # Absent
    /\ \E t \in 0..now : cells[2] = FormatDate(t)
    /\ cells[4] = Unknown \/ ValidateIp(cells[4])
    /\ Len(cells[5]) <= 200

C18_DuplicateCheckWins ==
    ( /\ Finished(1)
      /\ req[1].method = "POST"
      /\ email[1] # Absent
      /\ RecordsOf(pre[1].file, email[1]) > 0
      /\ FileSize(pre[1].file) > maxFileSize )
    => /\ resp[1].status = 200
       /\ resp[1].body = "json"
       /\ resp[1].success
       /\ resp[1].alreadyExists
       /\ csvFile = pre[1].file

C18_Witness ==
    /\ Finished(1)
    /\ ValidPost(1)
    /\ RecordsOf(pre[1].file, email[1]) = 1
    /\ FileSize(pre[1].file) > maxFileSize
    /\ statCache[1] > maxFileSize
    /\ resp[1] = AlreadyOnList
    /\ csvFile = pre[1].file

\* the request of worker p was accepted: its record is the last row
Accepted(p) ==
    /\ Finished(p)
    /\ resp[p].body = "json"
    /\ resp[p].success
    /\ ~resp[p].alreadyExists

LastRecord == CsvCells(TableRows(csvFile)[Len(TableRows(csvFile))])

\* an address header that is set and holds a well-formed address
WellFormedAddress(a) == a # Absent /\ ValidateIp(Trim(a))

\* the client address as the claim describes it
ExpectedAddress(h) ==
    LET first == IF h.xff = Absent THEN Absent ELSE Explode(",", h.xff)[1]
    IN  IF WellFormedAddress(first) THEN Trim(first)
        ELSE IF WellFormedAddress(h.remote) THEN Trim(h.remote)
        ELSE Unknown

\* C17: the address stored in a record is the first comma-separated entry of
\* the forwarded header when that is a well-formed address, otherwise the
\* address of the connection when that is well-formed, otherwise "unknown".
C17_AddressFallsBackToConnection ==
    Accepted(1) => LastRecord[4] = ExpectedAddress(req[1].headers)

\* C19: the timestamp of a record is chosen by the service when it accepts
\* the request: the timestamp the client sent is stored nowhere, the
\* response carries the timestamp written in the record, and the rows that
\* were in the ledger when a request arrived stay as they were.
C19_TimestampChosenByService ==
    /\ \A i \in 1..Len(TableRows(csvFile)) :
          LET cells == CsvCells(TableRows(csvFile)[i])
          IN  \A k \in 1..Len(cells) : cells[k] # ClientTime
    /\ Accepted(1)
       => /\ LastRecord[2] = resp[1].timestamp
          /\ \E t \in 0..now : LastRecord[2] = FormatDate(t)
    /\ pc[1] # "idle"
       => IsPrefix(TableRows(pre[1].file), TableRows(csvFile))

C19_Witness ==
    /\ Accepted(1)
    /\ req[1].body.timestamp = ClientTime
    /\ nreq = 2
    /\ Len(TableRows(csvFile)) = 3
    /\ CsvCells(TableRows(csvFile)[2])[2] = FormatDate(0)
    /\ LastRecord[2] = FormatDate(1)
    /\ resp[1].timestamp = FormatDate(1)

\* the first n characters of s
FirstChars(s, n) == [i \in 1..(IF Len(s) < n THEN Len(s) ELSE n) |-> s[i]]

\* C20: the user_agent of a record is the first 200 characters of the
\* request's User-Agent header, empty when the header is absent, and its
\* source is the source of the payload when there is one and landing_page
\* when there is none.
C20_UserAgentAndSourceStored ==
    Accepted(1)
    => /\ Len(LastRecord) = 5
       /\ Len(LastRecord[5]) <= 200
       /\ LastRecord[5] = IF req[1].headers.ua = Absent THEN <<>>
                          ELSE FirstChars(req[1].headers.ua, 200)
       /\ LastRecord[3] = IF req[1].body.source = Absent THEN DefaultSource
                          ELSE req[1].body.source

C20_Witness ==
    /\ Accepted(1)
    /\ req[1].headers.ua = LongUserAgent
    /\ req[1].body.source = <<"x","\n","y">>
    /\ Len(LastRecord[5]) = 200
    /\ LastRecord[5] # LongUserAgent
    /\ LastRecord[3] = <<"x","\n","y">>

\* number of times e is in the list
Occurrences(e, list) == Cardinality({i \in 1..Len(list) : list[i] = e})

\* C21: in demo mode waitlist_emails never holds an email twice; once the
\* simulations of all tabs that share the storage have ended, each email they
\* resolved a result for is in the list exactly once; and a simulation that
\* resolved alreadyExists=true wrote nothing to local storage.
C21_EachEmailOnceInLocalList ==
    /\ \A e \in DemoEmails : Occurrences(e, localStorage.waitlist_emails) <= 1
    /\ (\A t \in Tabs : tabs[t].stage = "idle")
       => \A t \in Tabs : \A e \in tabs[t].resolved :
             Occurrences(e, localStorage.waitlist_emails) = 1
    /\ \A t \in Tabs :
          (tabs[t].stage = "idle" /\ tabs[t].result.alreadyExists)
          => ~tabs[t].wrote

CallFailed(call) == ~call.reached \/ ~Ok(call.answer)

C25_EverySubmissionFinishes ==
    isSubmitting ~> (~isSubmitting /\ ~submitBtn.disabled /\ ~emailInput.disabled)

\* positions of character c in s
Positions(c, s) == {k \in 1..Len(s) : s[k] = c}

\* local-part@domain.tld: no white space, one @ with something before it,
\* and after it a dot that has something on both sides
AddressShape(s) ==
    /\ s # <<>>
    /\ \A k \in 1..Len(s) : s[k] \notin JsWhitespace
    /\ Cardinality(Positions("@", s)) = 1
    /\ \E i \in Positions("@", s) :
          /\ i > 1
          /\ \E j \in Positions(".", s) : i + 1 < j /\ j < Len(s)

\* C24: validateEmail sends no request and leaves isSubmitting and local
\* storage as they were, and what it returns is decided by the candidate
\* alone: true exactly when the candidate is not empty and has the shape
\* local-part@domain.tld without white space or a second @.
C24_ValidateIsPure ==
    last.handler \in {"input", "blur"}
    => /\ last.outcome = (IF AddressShape(emailInput.value) THEN "true" ELSE "false")
       /\ nsent = last.pre.nsent
       /\ Len(inflight) = last.pre.inflight
       /\ isSubmitting = last.pre.isSubmitting
       /\ localStorage = last.pre.localStorage

\* validateEmail returns true for the field of a form that is submitting
C24_Witness ==
    /\ last.handler = "blur"
    /\ last.outcome = "true"
    /\ isSubmitting
    /\ Len(emailInput.value) = MaxLen

\* the 1-based ranks of the records of the ledger whose email is e
RanksOf(f, e) ==
    {(IF f.oldLines > 0 THEN f.oldLines - 1 ELSE 0) + i :
        i \in {k \in 1..Len(RecordRows(f)) : FirstCell(RecordRows(f)[k]) = e}}

\* C26: two requests that were both answered success without alreadyExists
\* were told different positions, and the position a request was told is the
\* rank of a record of its email in the ledger.
C26_PositionsDistinct ==
    /\ \A p, q \in Procs :
          (p # q /\ Accepted(p) /\ Accepted(q))
          => resp[p].waitlistPosition # resp[q].waitlistPosition
    /\ \A p \in Procs :
          Accepted(p) => resp[p].waitlistPosition \in RanksOf(csvFile, email[p])

\* C27: when a request has been answered success=true, with or without
\* alreadyExists, the ledger holds a record whose email is the request's
\* normalized email.
C27_SuccessMeansStored ==
    \A p \in Procs :
        (Finished(p) /\ resp[p].body = "json" /\ resp[p].success)
        => RecordsOf(csvFile, email[p]) >= 1

\* first cell of the header row
HeaderCell == FirstCell(HeaderLine)

\* a mailbox, an @, and a host name with a dot in it
HasMailboxAndHost(e) ==
    \E i \in 1..Len(e) :
        /\ e[i] = "@"
        /\ i > 1
        /\ \E j \in (i + 2)..(Len(e) - 1) : e[j] = "."

\* C28: the email of every record the service has written has the form of
\* an address and is not the header's first cell, and a request that was
\* answered alreadyExists carried an email that is not the header's first
\* cell and was found in a line of the ledger that is not the header row.
C28_HeaderNeverADuplicate ==
    /\ \A e \in answered : HasMailboxAndHost(e) /\ e # HeaderCell
    /\ \A p \in Procs :
          Accepted(p)
          => \A i \in 1..Len(RecordRows(csvFile)) :
                LET cell == FirstCell(RecordRows(csvFile)[i])
                IN  HasMailboxAndHost(cell) /\ cell # HeaderCell
    /\ \A p \in Procs :
          (Finished(p) /\ resp[p].body = "json" /\ resp[p].success
             /\ resp[p].alreadyExists)
          => /\ email[p] # HeaderCell
             /\ \E i \in 1..Len(pre[p].file.lines) :
                   /\ pre[p].file.lines[i] # HeaderLine
                   /\ FirstCell(pre[p].file.lines[i]) = email[p]

\* the header's first cell is submitted to a ledger that has its header row
C28_Witness ==
    /\ Finished(1)
    /\ req[1].method = "POST"
    /\ req[1].body.email = HeaderCell
    /\ resp[1] = InvalidFormat
    /\ Len(csvFile.lines) >= 2
    /\ csvFile.lines[1] = HeaderLine

====
